---- MODULE Spec2Model ----
(***************************************************************************)
(* PHP Magic Number Detector (VS Code extension), src/src/extension.ts.    *)
(*                                                                         *)
(* Text is modelled as a sequence of characters, each a string, so that the *)
(* two regular expressions of parsePhpmndOutput, String.split, String.trim *)
(* and String.indexOf are computed character by character.                 *)
(***************************************************************************)
EXTENDS Integers, Sequences, FiniteSets, TLC

----------------------------------------------------------------------------
(* Character classes of the JavaScript regular expressions *)

\* \d
Digits == {"0", "1", "2", "3", "4", "5", "6", "7", "8", "9"}

\* A character outside ASCII is named by its code point: "U+2028" stands
\* for the one character U+2028.

\* \s and String.prototype.trim: tab, line feed, vertical tab, form feed,
\* carriage return, space, U+00A0, U+1680, U+2000..U+200A, U+2028, U+2029,
\* U+202F, U+205F, U+3000 and U+FEFF
WhiteSpace ==
  {" ", "\t", "\n", "\r", "\f", "", "U+00A0", "U+1680", "U+FEFF",
   "U+2000", "U+2001", "U+2002", "U+2003", "U+2004", "U+2005",
   "U+2006", "U+2007", "U+2008", "U+2009", "U+200A",
   "U+2028", "U+2029", "U+202F", "U+205F", "U+3000"}

\* characters that "." does not match (no s flag): line feed, carriage
\* return, U+2028 and U+2029
LineTerminators == {"\n", "\r", "U+2028", "U+2029"}

\* [\d.]
NumberChars == Digits \cup {"."}

\* the literal "Magic number: " of the inner regular expression
MagicPrefix ==
  <<"M", "a", "g", "i", "c", " ", "n", "u", "m", "b", "e", "r", ":", " ">>

----------------------------------------------------------------------------
(* String primitives *)

\* index of the last character of the maximal run of characters of class S
\* that starts at position p of s (p - 1 when the run is empty)
RECURSIVE RunEnd(_, _, _)
RunEnd(s, p, S) ==
  IF p <= Len(s) /\ s[p] \in S THEN RunEnd(s, p + 1, S) ELSE p - 1

\* the same for the maximal run of characters outside class S
RECURSIVE RunEndNot(_, _, _)
RunEndNot(s, p, S) ==
  IF p <= Len(s) /\ s[p] \notin S THEN RunEndNot(s, p + 1, S) ELSE p - 1

\* output.split('\n')
RECURSIVE Split(_)
Split(s) ==
  LET e == RunEndNot(s, 1, {"\n"})
  IN IF e = Len(s) THEN <<s>>
     ELSE <<SubSeq(s, 1, e)>> \o Split(SubSeq(s, e + 2, Len(s)))

\* String.prototype.trim
RECURSIVE TrimLeft(_)
TrimLeft(s) ==
  IF s # <<>> /\ Head(s) \in WhiteSpace THEN TrimLeft(Tail(s)) ELSE s

RECURSIVE TrimRight(_)
TrimRight(s) ==
  IF s # <<>> /\ s[Len(s)] \in WhiteSpace
  THEN TrimRight(SubSeq(s, 1, Len(s) - 1)) ELSE s

Trim(s) == TrimRight(TrimLeft(s))

\* does tok occur in text at 1-based position p
OccursAt(text, tok, p) ==
  /\ p >= 1
  /\ p + Len(tok) - 1 <= Len(text)
  /\ SubSeq(text, p, p + Len(tok) - 1) = tok

\* lineText.indexOf(magicNumber): 0-based index of the first occurrence, -1
\* when there is none
IndexOf(text, tok) ==
  LET hits == {p \in 1..(Len(text) + 1) : OccursAt(text, tok, p)}
  IN IF hits = {} THEN -1
     ELSE (CHOOSE p \in hits : \A q \in hits : p <= q) - 1

\* parseInt(digits, 10) of a non-empty run of decimal digits
DigitVal(c) ==
  CASE c = "0" -> 0 [] c = "1" -> 1 [] c = "2" -> 2 [] c = "3" -> 3
    [] c = "4" -> 4 [] c = "5" -> 5 [] c = "6" -> 6 [] c = "7" -> 7
    [] c = "8" -> 8 [] c = "9" -> 9

RECURSIVE ParseInt(_)
ParseInt(ds) ==
  IF ds = <<>> THEN 0
  ELSE 10 * ParseInt(SubSeq(ds, 1, Len(ds) - 1)) + DigitVal(ds[Len(ds)])

----------------------------------------------------------------------------
(* line.match(/^.*?:(\d+):?\s+(.+)/) *)

NoMatch == [ok |-> FALSE, colon |-> 0, num |-> <<>>, msg |-> <<>>]

\* the rest of the pattern, :(\d+):?\s+(.+), tried with its colon at
\* position i of the line
MatchAt(line, i) ==
  IF ~(i <= Len(line) /\ line[i] = ":") THEN NoMatch
  ELSE
    LET dEnd == RunEnd(line, i + 1, Digits)             \* (\d+), greedy
        p    == IF dEnd + 1 <= Len(line) /\ line[dEnd + 1] = ":"
                THEN dEnd + 2 ELSE dEnd + 1             \* :?
        wEnd == RunEnd(line, p, WhiteSpace)             \* \s+, greedy
        \* (.+) needs one character that is not a line terminator; \s+
        \* gives back characters until it finds one
        starts == {s \in (p + 1)..(wEnd + 1) :
                     s <= Len(line) /\ line[s] \notin LineTerminators}
    IN IF dEnd < i + 1 \/ wEnd < p \/ starts = {} THEN NoMatch
       ELSE
         LET s == CHOOSE x \in starts : \A y \in starts : y <= x
             e == RunEndNot(line, s, LineTerminators)      \* (.+), greedy
         IN [ok |-> TRUE, colon |-> i,
             num |-> SubSeq(line, i + 1, dEnd),
             msg |-> SubSeq(line, s, e)]

\* positions at which the lazy prefix ^.*? can stop: every character before
\* the colon is matched by "."
PrefixOk(line, i) ==
  \A k \in 1..(i - 1) : line[k] \notin LineTerminators

\* the colon positions at which the whole pattern matches
MatchPositions(line) ==
  {i \in 1..Len(line) : PrefixOk(line, i) /\ MatchAt(line, i).ok}

\* a greedy prefix ^.* in the place of the lazy one: the rightmost
MatchStartGreedy(line) ==
  LET ps == MatchPositions(line)
  IN CHOOSE i \in ps : \A j \in ps : i >= j

\* which of the positions the lazy quantifier .*? selects: the leftmost
MatchStart(line) ==
  LET ps == MatchPositions(line)
  IN CHOOSE i \in ps : \A j \in ps : i <= j

MatchLine(line) ==
  IF MatchPositions(line) = {} THEN NoMatch
  ELSE MatchAt(line, MatchStart(line))

----------------------------------------------------------------------------
(* message.match(/Magic number: ([\d.]+)/) *)

NoToken == [ok |-> FALSE, token |-> <<>>]

\* a token limited to one decimal point, in the place of [\d.]+
RECURSIVE OneDotEnd(_, _, _)
OneDotEnd(message, q, seen) ==
  IF q <= Len(message) /\ message[q] \in Digits
  THEN OneDotEnd(message, q + 1, seen)
  ELSE IF q <= Len(message) /\ message[q] = "." /\ ~seen
       THEN OneDotEnd(message, q + 1, TRUE)
       ELSE q - 1

TokenEndOneDot(message, p) ==
  OneDotEnd(message, p + Len(MagicPrefix), FALSE)

\* the token characters the class [\d.] admits after the literal
TokenEnd(message, p) ==
  RunEnd(message, p + Len(MagicPrefix), NumberChars)

NumberMatch(message) ==
  LET hits == {p \in 1..Len(message) :
                 /\ OccursAt(message, MagicPrefix, p)
                 /\ TokenEnd(message, p) >= p + Len(MagicPrefix)}
  IN IF hits = {} THEN NoToken
     ELSE LET p == CHOOSE x \in hits : \A y \in hits : x <= y
          IN [ok |-> TRUE,
              token |-> SubSeq(message, p + Len(MagicPrefix),
                               TokenEnd(message, p))]

----------------------------------------------------------------------------
(* parsePhpmndOutput *)

\* A document is the sequence of its lines' texts: document.lineCount is
\* Len(document) and document.lineAt(n).text is document[n + 1].

\* if (lineNumber >= 0 && lineNumber < document.lineCount)
InRange(lineNumber, document) ==
  lineNumber >= 0 /\ lineNumber < Len(document)

\* the columns of the vscode.Range built for a message on a line
RangeOf(lineText, message) ==
  LET numberMatch == NumberMatch(message)
      magicNumber == numberMatch.token
      index       == IndexOf(lineText, magicNumber)
  IN IF numberMatch.ok /\ index # -1
     THEN [startColumn |-> index, endColumn |-> index + Len(magicNumber)]
     ELSE [startColumn |-> 0, endColumn |-> Len(lineText)]

\* new vscode.Diagnostic(range, message, Warning) with source 'phpmnd'.
\* The constructor of the host refuses an empty message:
\* if (!message) throw new TypeError('message must be set').
Diagnostic(lineNumber, range, message) ==
  IF message = <<>>
  THEN [threw |-> "TypeError: message must be set"]
  ELSE [line |-> lineNumber,
        startColumn |-> range.startColumn, endColumn |-> range.endColumn,
        message |-> message, severity |-> "Warning", source |-> "phpmnd"]

\* What a call, or one turn of the loop, comes to: the diagnostics pushed,
\* or an exception that leaves parsePhpmndOutput (nothing is returned).
Returned(ds) == [threw |-> FALSE, diagnostics |-> ds]
Thrown       == [threw |-> TRUE, diagnostics |-> <<>>]

\* the captured number taken as 0-based already
LineNumberOfNoShift(num) == ParseInt(num)

\* parseInt(match[1], 10) - 1: VS Code uses 0-based line numbers
LineNumberOf(num) == ParseInt(num) - 1

\* diagnostics.push(diagnostic), reached only when the constructor
\* returned
Push(diagnostic) ==
  IF "threw" \in DOMAIN diagnostic THEN Thrown
  ELSE Returned(<<diagnostic>>)

\* the body of the for loop: what one output line pushes on diagnostics
LineDiagnostics(line, document) ==
  LET match      == MatchLine(line)
      lineNumber == LineNumberOf(match.num)
      message    == Trim(match.msg)
  IN IF ~match.ok THEN Returned(<<>>)
     ELSE IF InRange(lineNumber, document)
          THEN Push(Diagnostic(lineNumber,
                               RangeOf(document[lineNumber + 1], message),
                               message))
          ELSE Returned(<<>>)

\* one turn of the loop followed by the remaining turns: an exception in
\* either leaves the function, otherwise the pushes follow one another
Sequenced(first, rest) ==
  IF first.threw THEN Thrown
  ELSE IF rest.threw THEN Thrown
       ELSE Returned(first.diagnostics \o rest.diagnostics)

\* a turn that ends the loop when it had a finding to drop
StopAfter(matched, first, rest) ==
  IF ~first.threw /\ matched /\ first.diagnostics = <<>>
  THEN Returned(<<>>)
  ELSE Sequenced(first, rest)

\* a loop that gives up at the first finding it has to drop
RECURSIVE ParseLinesStop(_, _)
ParseLinesStop(lines, document) ==
  IF lines = <<>> THEN Returned(<<>>)
  ELSE StopAfter(MatchLine(Head(lines)).ok,
                 LineDiagnostics(Head(lines), document),
                 ParseLinesStop(Tail(lines), document))

\* for (const line of lines) { ... }; return diagnostics
RECURSIVE ParseLines(_, _)
ParseLines(lines, document) ==
  IF lines = <<>> THEN Returned(<<>>)
  ELSE Sequenced(LineDiagnostics(Head(lines), document),
                 ParseLines(Tail(lines), document))

parsePhpmndOutput(output, document) ==
  ParseLines(Split(output), document)

----------------------------------------------------------------------------
(* State *)

VARIABLES
  docs,           \* the text of each open document, as the editor holds it
  diagnostics,    \* diagnosticCollection: document -> sequence of Diagnostic
  hasShownError,  \* the module-level latch
  checks,         \* the invocations of checkDocument and where each stands
  prompts,        \* number of calls of vscode.window.showErrorMessage
  lastFinished,   \* per document, the invocation whose promise settled last
  deactivated,    \* "no", or how the host treats a call on a disposed object
  output,         \* argument of a direct call of parsePhpmndOutput
  document,       \* its document
  result,         \* what that call came to: a return value or an exception
  mapped          \* whether that call has ended

checkVars  == <<docs, diagnostics, hasShownError, checks, prompts,
                lastFinished, deactivated>>
mapperVars == <<output, document, result, mapped>>
vars       == <<docs, diagnostics, hasShownError, checks, prompts,
                lastFinished, deactivated, output, document, result, mapped>>

\* number of invocations of checkDocument in one process lifetime
NumChecks == 2

Checks == 1..NumChecks

\* the open PHP documents
Docs == {"a.php", "b.php"}

\* the texts a document goes through while it is edited; b.php is left
\* as it is
DocVersions(d) ==
  IF d = "a.php"
  THEN { << <<"$", "x", " ", "=", " ", "4", "2", ";">>, <<"y">> >>,
         << <<"$", "x", " ", "=", " ", "4", "2", ";">> >> }
  ELSE { << <<"$", "x", " ", "=", " ", "4", "2", ";">>, <<"y">> >> }

\* texts the analyzer writes: two findings, the second past the end of the
\* document; a finding whose message is a single space; a line on the
\* standard error
Findings ==
  <<"f", ".", "p", "h", "p", ":", "1", ":", " ", "M", "a", "g", "i", "c", " ", "n", "u", "m", "b", "e", "r", ":", " ", "4", "2", "\n", "f", ".", "p", "h", "p", ":", "9", " ", "M", "a", "g", "i", "c", " ", "n", "u", "m", "b", "e", "r", ":", " ", "7", "\n">>
BlankFinding == <<"f", ".", "p", "h", "p", ":", "1", " ", " ", "\n">>
Hint == <<"f", ".", "p", "h", "p", ":", "2", " ", "h", "i", "n", "t", "\n">>

\* what a run of the analyzer may leave on its standard output and
\* standard error
AnalyzerOutputs ==
  { [stdout |-> <<>>,         stderr |-> <<>>],
    [stdout |-> Findings,     stderr |-> Hint],
    [stdout |-> <<>>,         stderr |-> Hint],
    [stdout |-> BlankFinding, stderr |-> <<>>] }

\* After deactivate() the collection is disposed, and the host disposes
\* context.subscriptions: the three registrations, the collection and the
\* output channel.  What a later call on a disposed object does is the
\* host's: "strict", it throws (VS Code: 'illegal state - object is
\* disposed', 'Channel has been closed'); "lenient", it is carried out.
DisposedHosts == {"strict", "lenient"}

IdleCheck ==
  [pc |-> "idle", doc |-> "", exit |-> "none", stdout |-> <<>>,
   stderr |-> <<>>, mapper |-> FALSE, threw |-> FALSE, prompted |-> FALSE,
   wrote |-> <<>>]

CheckerInit ==
  /\ docs \in {f \in [Docs -> UNION {DocVersions(d) : d \in Docs}] :
                 \A d \in Docs : f[d] \in DocVersions(d)}
  /\ diagnostics = [d \in Docs |-> <<>>]
  /\ hasShownError = FALSE
  /\ checks = [c \in Checks |-> IdleCheck]
  /\ prompts = 0
  /\ lastFinished = [d \in Docs |-> 0]
  /\ deactivated = "no"

MapperIdle ==
  /\ output = <<>>
  /\ document = << <<>> >>
  /\ result = Returned(<<>>)
  /\ mapped = FALSE

Init == CheckerInit /\ MapperIdle

----------------------------------------------------------------------------
(* checkDocument *)

\* A trigger (save, open, the check command, activation) calls
\* checkDocument, which runs up to `await execAsync(command, ...)`.
\* Invocations are numbered in the order they are started.
Start(c, d) ==
  /\ deactivated = "no"
  /\ checks[c].pc = "idle"
  /\ IF c = 1 THEN TRUE ELSE checks[c - 1].pc # "idle"
  /\ checks' = [checks EXCEPT ![c].pc = "exec", ![c].doc = d]
  /\ UNCHANGED <<docs, diagnostics, hasShownError, prompts,
                 lastFinished, deactivated>>
  /\ UNCHANGED mapperVars

\* the text handed to the mapper: stdout + stderr
Combined(stdout, stderr) == stdout \o stderr

\* diagnosticCollection.set(uri, ds): the entry of d is replaced, unless the
\* collection is disposed and the call throws
SetEntry(d, ds) ==
  IF deactivated = "strict" THEN diagnostics
  ELSE [diagnostics EXCEPT ![d] = ds]

\* does parsePhpmndOutput(stdout + stderr, document) throw for invocation c
MapperThrows(c, stdout, stderr) ==
  parsePhpmndOutput(Combined(stdout, stderr), docs[checks[c].doc]).threw

\* checkDocument has ended (its promise is settled)
Finished(c, exit, stdout, stderr, mapper, threw, wrote) ==
  /\ checks' = [checks EXCEPT ![c].pc = "done", ![c].exit = exit,
                              ![c].stdout = stdout, ![c].stderr = stderr,
                              ![c].mapper = mapper, ![c].threw = threw,
                              ![c].wrote = wrote]
  /\ lastFinished' = [lastFinished EXCEPT ![checks[c].doc] = c]

\* parsePhpmndOutput(output, document) returns;
\* diagnosticCollection.set(uri, diagnostics) and the end of checkDocument.
\* When set throws, checkDocument ends there: thrown in the try block, the
\* error carries no stdout or stderr and the else branch throws again at
\* its first outputChannel.appendLine.
SetAndFinish(c, exit, stdout, stderr, r) ==
  /\ ~r.threw
  /\ diagnostics' = SetEntry(checks[c].doc, r.diagnostics)
  /\ Finished(c, exit, stdout, stderr, TRUE, FALSE, r.diagnostics)
  /\ UNCHANGED <<docs, hasShownError, prompts, deactivated>>
  /\ UNCHANGED mapperVars

\* const diagnostics = parsePhpmndOutput(output, document) and what
\* follows it
MapAndSet(c, exit, stdout, stderr) ==
  SetAndFinish(c, exit, stdout, stderr,
               parsePhpmndOutput(Combined(stdout, stderr),
                                 docs[checks[c].doc]))

\* execAsync resolves (exit status zero) and the mapper returns: the rest
\* of the try block
ExecResolve(c, stdout, stderr) ==
  /\ checks[c].pc = "exec"
  /\ MapAndSet(c, "zero", stdout, stderr)

\* if (error.stdout || error.stderr)
HasOutput(stdout, stderr) == stdout # <<>> \/ stderr # <<>>

\* execAsync rejects, some text was captured and the mapper returns: the
\* first catch branch
ExecRejectWithOutput(c, stdout, stderr) ==
  /\ checks[c].pc = "exec"
  /\ HasOutput(stdout, stderr)
  /\ MapAndSet(c, "nonzero", stdout, stderr)

\* execAsync rejects, some text was captured and the mapper throws: the
\* exception is raised inside the catch block and leaves checkDocument
\* before set is reached
ExecRejectWithOutputThrows(c, stdout, stderr) ==
  /\ checks[c].pc = "exec"
  /\ HasOutput(stdout, stderr)
  /\ MapperThrows(c, stdout, stderr)
  /\ Finished(c, "nonzero", stdout, stderr, TRUE, TRUE, <<>>)
  /\ UNCHANGED <<docs, diagnostics, hasShownError, prompts,
                 deactivated>>
  /\ UNCHANGED mapperVars

\* if (!hasShownError)
ShouldPrompt(latch) == ~latch

\* nothing is written to the collection before the prompt is awaited
EntryAtPrompt(previous) == previous

\* the else branch of the catch block with the latch clear: the latch is
\* set and checkDocument suspends at
\* `await vscode.window.showErrorMessage(...)`
PromptBranch(c, exit, stdout, stderr, mapper) ==
  /\ deactivated # "strict"
  /\ ShouldPrompt(hasShownError)
  /\ hasShownError' = TRUE
  /\ prompts' = prompts + 1
  /\ checks' = [checks EXCEPT ![c].pc = "prompt", ![c].exit = exit,
                              ![c].stdout = stdout, ![c].stderr = stderr,
                              ![c].mapper = mapper, ![c].threw = mapper,
                              ![c].prompted = TRUE]
  /\ diagnostics' = [diagnostics EXCEPT
                       ![checks[c].doc] = EntryAtPrompt(@)]
  /\ UNCHANGED <<docs, lastFinished, deactivated>>
  /\ UNCHANGED mapperVars

\* the entry left in place when the analyzer could not run
FailureEntryStale(previous) == previous

\* diagnosticCollection.set(document.uri, [])
FailureEntry(previous) == <<>>

\* the clearing of the diagnostics and the end of checkDocument
ClearAndFinish(c, exit, stdout, stderr, mapper) ==
  /\ diagnostics' = SetEntry(checks[c].doc,
                              FailureEntry(diagnostics[checks[c].doc]))
  /\ Finished(c, exit, stdout, stderr, mapper, mapper, <<>>)

\* the else branch of the catch block with the latch set: the diagnostics
\* are cleared in the same turn
SilentBranch(c, exit, stdout, stderr, mapper) ==
  /\ deactivated # "strict"
  /\ ~ShouldPrompt(hasShownError)
  /\ ClearAndFinish(c, exit, stdout, stderr, mapper)
  /\ UNCHANGED <<docs, hasShownError, prompts, deactivated>>
  /\ UNCHANGED mapperVars

\* the else branch of the catch block after the output channel was
\* disposed by a strict host: it throws at its first
\* outputChannel.appendLine, before the latch is read
DisposedBranch(c, exit, stdout, stderr, mapper) ==
  /\ deactivated = "strict"
  /\ Finished(c, exit, stdout, stderr, mapper, mapper, <<>>)
  /\ UNCHANGED <<docs, diagnostics, hasShownError, prompts, deactivated>>
  /\ UNCHANGED mapperVars

\* execAsync rejects with nothing captured and the latch is clear
ExecRejectPrompt(c, stdout, stderr) ==
  /\ checks[c].pc = "exec"
  /\ ~HasOutput(stdout, stderr)
  /\ PromptBranch(c, "nonzero", stdout, stderr, FALSE)

\* execAsync rejects with nothing captured and the latch is set
ExecRejectSilent(c, stdout, stderr) ==
  /\ checks[c].pc = "exec"
  /\ ~HasOutput(stdout, stderr)
  /\ SilentBranch(c, "nonzero", stdout, stderr, FALSE)

\* execAsync rejects with nothing captured after deactivation on a strict
\* host
ExecRejectDisposed(c, stdout, stderr) ==
  /\ checks[c].pc = "exec"
  /\ ~HasOutput(stdout, stderr)
  /\ DisposedBranch(c, "nonzero", stdout, stderr, FALSE)

\* execAsync resolves and the mapper throws inside the try block: the catch
\* block receives a TypeError, which has neither stdout nor stderr, and
\* takes its else branch as if the analyzer had not run; here the latch is
\* clear
ExecResolveThrowsPrompt(c, stdout, stderr) ==
  /\ checks[c].pc = "exec"
  /\ MapperThrows(c, stdout, stderr)
  /\ PromptBranch(c, "zero", stdout, stderr, TRUE)

\* the same with the latch set
ExecResolveThrowsSilent(c, stdout, stderr) ==
  /\ checks[c].pc = "exec"
  /\ MapperThrows(c, stdout, stderr)
  /\ SilentBranch(c, "zero", stdout, stderr, TRUE)

\* the same after deactivation on a strict host
ExecResolveThrowsDisposed(c, stdout, stderr) ==
  /\ checks[c].pc = "exec"
  /\ MapperThrows(c, stdout, stderr)
  /\ DisposedBranch(c, "zero", stdout, stderr, TRUE)

\* the error prompt is answered or dismissed; its answer only opens the
\* output channel or a web page
PromptResolve(c) ==
  /\ checks[c].pc = "prompt"
  /\ ClearAndFinish(c, checks[c].exit, checks[c].stdout, checks[c].stderr,
                    checks[c].mapper)
  /\ UNCHANGED <<docs, hasShownError, prompts, deactivated>>
  /\ UNCHANGED mapperVars

\* the user edits a document
EditDocument(d, text) ==
  /\ text # docs[d]
  /\ docs' = [docs EXCEPT ![d] = text]
  /\ UNCHANGED <<diagnostics, hasShownError, checks, prompts,
                 lastFinished, deactivated>>
  /\ UNCHANGED mapperVars

\* deactivate(): diagnosticCollection.clear(); diagnosticCollection.dispose()
\* empties the entry of every document; checks in flight are not cancelled
Deactivate(host) ==
  /\ deactivated = "no"
  /\ diagnostics' = [d \in Docs |-> <<>>]
  /\ deactivated' = host
  /\ UNCHANGED <<docs, hasShownError, checks, prompts,
                 lastFinished>>
  /\ UNCHANGED mapperVars

Next ==
  \/ \E c \in Checks, d \in Docs : Start(c, d)
  \/ \E c \in Checks, o \in AnalyzerOutputs :
       ExecResolve(c, o.stdout, o.stderr)
  \/ \E c \in Checks, o \in AnalyzerOutputs :
       ExecRejectWithOutput(c, o.stdout, o.stderr)
  \/ \E c \in Checks, o \in AnalyzerOutputs :
       ExecRejectWithOutputThrows(c, o.stdout, o.stderr)
  \/ \E c \in Checks, o \in AnalyzerOutputs :
       ExecResolveThrowsPrompt(c, o.stdout, o.stderr)
  \/ \E c \in Checks, o \in AnalyzerOutputs :
       ExecResolveThrowsSilent(c, o.stdout, o.stderr)
  \/ \E c \in Checks, o \in AnalyzerOutputs :
       ExecResolveThrowsDisposed(c, o.stdout, o.stderr)
  \/ \E c \in Checks, o \in AnalyzerOutputs :
       ExecRejectPrompt(c, o.stdout, o.stderr)
  \/ \E c \in Checks, o \in AnalyzerOutputs :
       ExecRejectSilent(c, o.stdout, o.stderr)
  \/ \E c \in Checks, o \in AnalyzerOutputs :
       ExecRejectDisposed(c, o.stdout, o.stderr)
  \/ \E c \in Checks : PromptResolve(c)
  \/ \E d \in Docs : \E text \in DocVersions(d) : EditDocument(d, text)
  \/ \E host \in DisposedHosts : Deactivate(host)

Spec == Init /\ [][Next]_vars

----------------------------------------------------------------------------
(* parsePhpmndOutput called on its own, over a family of analyzer outputs *)

\* most output lines a call is given
MaxOutputLines == 2

\* analyzer lines "<path>:<N><sep><message>"
PathParts    == { <<"f", ".", "p", "h", "p">> }
NumberParts  == { <<"0">>, <<"1">>, <<"3">>, <<"4">> }
SepParts     == { <<" ">>, <<":", " ">> }
MessageParts == { <<"M", "a", "g", "i", "c", " ", "n", "u", "m", "b", "e", "r", ":", " ", "4", "2">> }

ShapedLines ==
  {p \o <<":">> \o n \o s \o m :
     p \in PathParts, n \in NumberParts, s \in SepParts, m \in MessageParts}

\* lines with more than one colon group, odd tokens, line terminators
\* other than the line feed, white space other than the space, missing
\* messages, and lines that are not findings at all
OddLines ==
  { <<"a", ":", "2", " ", "b", ":", "1", " ", "M", "a", "g", "i", "c", " ", "n", "u", "m", "b", "e", "r", ":", " ", "4", "2">>,
    <<"f", ".", "p", "h", "p", ":", "1", " ", "s", "e", "e", " ", "1", "2", ":", "3", "0", " ", "n", "o", "t", "e">>,
    <<"f", ".", "p", "h", "p", ":", "2", " ", "M", "a", "g", "i", "c", " ", "n", "u", "m", "b", "e", "r", ":", " ", "1", ".", "2", ".", "3">>,
    <<"f", ".", "p", "h", "p", ":", "2", " ", "M", "a", "g", "i", "c", " ", "n", "u", "m", "b", "e", "r", ":", " ", ".">>,
    <<"f", ".", "p", "h", "p", ":", "1", " ", "M", "a", "g", "i", "c", " ", "n", "u", "m", "b", "e", "r", ":", " ", "7">>,
    <<"f", ".", "p", "h", "p", ":", "1", ":", " ", "M", "a", "g", "i", "c", " ", "n", "u", "m", "b", "e", "r", ":", " ", "4", "2", "\r">>,
    <<"f", ".", "p", "h", "p", ":", "2", " ", "x", "\r", "y">>,
    <<"f", ".", "p", "h", "p", ":", "1", " ", " ">>,
    <<>>,
    <<"a", "U+2028", "f", ".", "p", "h", "p", ":", "1", " ", "M", "a", "g", "i", "c", " ", "n", "u", "m", "b", "e", "r", ":", " ", "4", "2">>,
    <<"f", ".", "p", "h", "p", ":", "1", "", "M", "a", "g", "i", "c", " ", "n", "u", "m", "b", "e", "r", ":", " ", "4", "2", "U+00A0">>,
    <<"f", ".", "p", "h", "p", ":", "2", " ", "x", "U+2029", "y">>,
    <<"f", ".", "p", "h", "p", ":", "0", "1", " ", "M", "a", "g", "i", "c", " ", "n", "u", "m", "b", "e", "r", ":", " ", "M", "a", "g", "i", "c", " ", "n", "u", "m", "b", "e", "r", ":", " ", "4">>,
    <<" ", "f", ".", "p", "h", "p", ":", "3", "\t", "h", "i", "n", "t", " ">> }

OutputLines == ShapedLines \cup OddLines

\* the outputs of at most n lines, joined by line feeds
RECURSIVE OutputsOf(_)
OutputsOf(n) ==
  IF n = 1 THEN OutputLines
  ELSE OutputsOf(n - 1) \cup
       {o \o <<"\n">> \o l : o \in OutputsOf(n - 1), l \in OutputLines}

Outputs == OutputsOf(MaxOutputLines)

Documents ==
  { << <<"x", "(", "4", "2", ",", " ", "4", "2", ")", ";">>,
       <<"$", "v", " ", "=", " ", "'", "1", ".", "2", ".", "3", "'", ";">>,
       <<>> >>,
    << <<"$", "x", " ", "=", " ", "4", "2", ";">> >> }

CheckerIdle ==
  /\ docs = [d \in Docs |-> << <<>> >>]
  /\ diagnostics = [d \in Docs |-> <<>>]
  /\ hasShownError = FALSE
  /\ checks = [c \in Checks |-> IdleCheck]
  /\ prompts = 0
  /\ lastFinished = [d \in Docs |-> 0]
  /\ deactivated = "no"

MapperInit ==
  /\ CheckerIdle
  /\ output \in Outputs
  /\ document \in Documents
  /\ result = Returned(<<>>)
  /\ mapped = FALSE

\* const diagnostics = parsePhpmndOutput(output, document)
Parse ==
  /\ ~mapped
  /\ result' = parsePhpmndOutput(output, document)
  /\ mapped' = TRUE
  /\ UNCHANGED <<output, document>>
  /\ UNCHANGED checkVars

MapperNext == Parse

MapperSpec == MapperInit /\ [][MapperNext]_vars

----------------------------------------------------------------------------
(* Properties of parsePhpmndOutput, checked under MapperSpec *)

OutLines == Split(output)

\* the 1-based line number an output line carries
Captured(line) == ParseInt(MatchLine(line).num)

\* the output lines that are findings on a line of the document
Kept ==
  SelectSeq(OutLines,
            LAMBDA l : MatchLine(l).ok /\ Captured(l) \in 1..Len(document))

\* a colon followed by digits, an optional colon and whitespace
GroupAt(line, i) ==
  /\ line[i] = ":"
  /\ i + 1 <= Len(line) /\ line[i + 1] \in Digits
  /\ LET e == RunEnd(line, i + 1, Digits)
     IN \/ e + 1 <= Len(line) /\ line[e + 1] \in WhiteSpace
        \/ /\ e + 2 <= Len(line)
           /\ line[e + 1] = ":"
           /\ line[e + 2] \in WhiteSpace

Groups(line) == {i \in 1..Len(line) : GroupAt(line, i)}

FirstGroup(line) == CHOOSE i \in Groups(line) : \A j \in Groups(line) : i <= j
LastGroup(line)  == CHOOSE i \in Groups(line) : \A j \in Groups(line) : i >= j

\* the run of digits right after the colon at i, as a number
NumberAfter(line, i) ==
  ParseInt(SubSeq(line, i + 1, RunEnd(line, i + 1, Digits)))

\* the text after the whitespace that ends the group at i, up to the end of
\* the line or the first line terminator, trimmed
MessageAfter(line, i) ==
  LET e == RunEnd(line, i + 1, Digits)
      p == IF line[e + 1] = ":" THEN e + 2 ELSE e + 1
      w == RunEnd(line, p, WhiteSpace)
  IN Trim(SubSeq(line, w + 1, RunEndNot(line, w + 1, LineTerminators)))

Matched == SelectSeq(OutLines, LAMBDA l : MatchLine(l).ok)

\* the findings on a line of the document whose message is all white space
Refused ==
  {k \in 1..Len(Kept) : MessageAfter(Kept[k], FirstGroup(Kept[k])) = <<>>}

\* C1: every diagnostic returned has 0 <= line < document.lineCount; an
\* output line whose number is out of range is dropped, not clamped, and
\* the other lines of the output still give their diagnostics, in order.
\* (A call that throws returns no diagnostic.)
C1_LinesInRange ==
  (mapped /\ ~result.threw) =>
    /\ \A k \in 1..Len(result.diagnostics) :
         /\ result.diagnostics[k].line >= 0
         /\ result.diagnostics[k].line < Len(document)
    /\ Len(result.diagnostics) = Len(Kept)
    /\ \A k \in 1..Len(result.diagnostics) :
         result.diagnostics[k].line = Captured(Kept[k]) - 1

\* an out-of-range finding is followed by one that is in range and emitted
C1_Witness ==
  /\ mapped /\ ~result.threw
  /\ Len(OutLines) >= 2
  /\ MatchLine(OutLines[1]).ok
  /\ Captured(OutLines[1]) > Len(document)
  /\ MatchLine(OutLines[2]).ok
  /\ Captured(OutLines[2]) \in 1..Len(document)
  /\ Len(result.diagnostics) = 1
  /\ result.diagnostics[1].line = Captured(OutLines[2]) - 1

\* number of output lines that are findings satisfying P
CountLines(P(_)) ==
  Len(SelectSeq(OutLines, LAMBDA l : MatchLine(l).ok /\ P(Captured(l))))

\* C6 as stated: an output line whose captured number N is <= 0 or
\* >= document.lineCount emits no diagnostic, so every diagnostic comes
\* from a line with 0 < N < document.lineCount, and such a line raises no
\* exception: a call throws only on a finding that is in range.
C6_Original ==
  /\ (mapped /\ result.threw) => Refused # {}
  /\ (mapped /\ ~result.threw) =>
       Len(result.diagnostics)
         <= CountLines(LAMBDA n : n > 0 /\ n < Len(document))

\* C6 amended: an output line whose captured number N is <= 0 or
\* > document.lineCount emits no diagnostic (N = document.lineCount is
\* the last line and is emitted) and raises no exception: a call throws
\* only on a finding that is in range and whose message is all white space.
C6_OutOfRangeDropped ==
  /\ (mapped /\ result.threw) => Refused # {}
  /\ (mapped /\ ~result.threw) =>
       Len(result.diagnostics)
         <= CountLines(LAMBDA n : n > 0 /\ n <= Len(document))

\* a finding numbered 0 or beyond the last line is dropped while a finding
\* on the last line is emitted
C6_Witness ==
  /\ mapped /\ ~result.threw
  /\ Len(OutLines) = 2
  /\ MatchLine(OutLines[1]).ok
  /\ Captured(OutLines[1]) = 0 \/ Captured(OutLines[1]) > Len(document)
  /\ MatchLine(OutLines[2]).ok
  /\ Captured(OutLines[2]) = Len(document)
  /\ Len(result.diagnostics) = 1
  /\ result.diagnostics[1].line = Len(document) - 1

\* is tok found in text at 0-based column i, and nowhere before it
FirstOccurrence(text, tok, i) ==
  /\ i >= 0
  /\ i + Len(tok) <= Len(text)
  /\ \A k \in 1..Len(tok) : text[i + k] = tok[k]
  /\ \A j \in 0..(i - 1) : \E k \in 1..Len(tok) : text[j + k] # tok[k]

Occurs(text, tok) ==
  \E i \in 0..Len(text) : FirstOccurrence(text, tok, i)

\* C5: a matched in-range line always gives a diagnostic on that line; its
\* columns are [i, i + length(token)) at the first occurrence of the token
\* of its message in the line's text when there is a token and it occurs,
\* and otherwise the full line, 0 to the length of the text.
C5_Original ==
  mapped =>
    /\ ~result.threw
    /\ Len(result.diagnostics) = Len(Kept)
    /\ \A k \in 1..Len(result.diagnostics) :
         LET d    == result.diagnostics[k]
             text == document[d.line + 1]
             nm   == NumberMatch(d.message)
         IN /\ d.line = Captured(Kept[k]) - 1
            /\ IF nm.ok /\ Occurs(text, nm.token)
               THEN /\ FirstOccurrence(text, nm.token, d.startColumn)
                    /\ d.endColumn = d.startColumn + Len(nm.token)
               ELSE d.startColumn = 0 /\ d.endColumn = Len(text)

\* C8 as stated: on a matched line the line number is the run of digits
\* after the last colon group, so the diagnostics lie on the lines those
\* numbers name.
C8_Original ==
  (mapped /\ ~result.threw) =>
    LET kept == SelectSeq(Matched,
                  LAMBDA l : NumberAfter(l, LastGroup(l)) \in 1..Len(document))
    IN /\ Len(result.diagnostics) = Len(kept)
       /\ \A k \in 1..Len(result.diagnostics) :
            result.diagnostics[k].line = NumberAfter(kept[k], LastGroup(kept[k])) - 1

\* C8 amended: on a matched line the line number is the run of digits after
\* the first (leftmost) colon group, and the message is the text after that
\* group's whitespace up to the end of the line or the first line
\* terminator, trimmed.
C8_FirstGroup ==
  (mapped /\ ~result.threw) =>
    LET kept == SelectSeq(Matched,
                  LAMBDA l : NumberAfter(l, FirstGroup(l)) \in 1..Len(document))
    IN /\ \A k \in 1..Len(Matched) : Groups(Matched[k]) # {}
       /\ Len(result.diagnostics) = Len(kept)
       /\ \A k \in 1..Len(result.diagnostics) :
            /\ result.diagnostics[k].line = NumberAfter(kept[k], FirstGroup(kept[k])) - 1
            /\ result.diagnostics[k].message = MessageAfter(kept[k], FirstGroup(kept[k]))

\* a line with two colon groups naming different lines of the document gave
\* its diagnostic on the line the first group names
C8_Witness ==
  /\ mapped /\ ~result.threw
  /\ Len(OutLines) = 1
  /\ Cardinality(Groups(OutLines[1])) >= 2
  /\ NumberAfter(OutLines[1], FirstGroup(OutLines[1])) \in 1..Len(document)
  /\ NumberAfter(OutLines[1], LastGroup(OutLines[1])) \in 1..Len(document)
  /\ NumberAfter(OutLines[1], FirstGroup(OutLines[1]))
       # NumberAfter(OutLines[1], LastGroup(OutLines[1]))
  /\ Len(result.diagnostics) = 1
  /\ result.diagnostics[1].line = NumberAfter(OutLines[1], FirstGroup(OutLines[1])) - 1

\* number of decimal points of a token
RECURSIVE DotCount(_)
DotCount(tok) ==
  IF tok = <<>> THEN 0
  ELSE (IF Head(tok) = "." THEN 1 ELSE 0) + DotCount(Tail(tok))

\* the positions of a message where "Magic number: " stands before a digit
\* or a decimal point
TokenStarts(message) ==
  {p \in 1..Len(message) :
     /\ p + Len(MagicPrefix) <= Len(message)
     /\ \A k \in 1..Len(MagicPrefix) : message[p + k - 1] = MagicPrefix[k]
     /\ message[p + Len(MagicPrefix)] \in NumberChars}

\* every character from the first such position on that is a digit or a
\* decimal point, up to the first character that is neither
WholeToken(message) ==
  LET p == CHOOSE x \in TokenStarts(message) :
             \A y \in TokenStarts(message) : x <= y
      b == p + Len(MagicPrefix)
  IN SubSeq(message, b, RunEnd(message, b, NumberChars))

\* C9 as stated: the token taken from a message after "Magic number: " has
\* digits and at most one decimal point.
C9_Original ==
  (mapped /\ ~result.threw) =>
    \A k \in 1..Len(result.diagnostics) :
      NumberMatch(result.diagnostics[k].message).ok =>
        /\ \A i \in 1..Len(NumberMatch(result.diagnostics[k].message).token) :
             NumberMatch(result.diagnostics[k].message).token[i] \in NumberChars
        /\ DotCount(NumberMatch(result.diagnostics[k].message).token) <= 1

\* C9 amended: the token is the whole run of digits and decimal points that
\* follows "Magic number: ", with any number of decimal points ("1.2.3",
\* "1.2." and "." are tokens), and that run is the text searched for in the
\* line.
C9_WholeRun ==
  (mapped /\ ~result.threw) =>
    \A k \in 1..Len(result.diagnostics) :
      LET d    == result.diagnostics[k]
          text == document[d.line + 1]
      IN TokenStarts(d.message) # {} =>
           LET tok == WholeToken(d.message)
           IN /\ NumberMatch(d.message).ok
              /\ NumberMatch(d.message).token = tok
              /\ IF Occurs(text, tok)
                 THEN /\ FirstOccurrence(text, tok, d.startColumn)
                      /\ d.endColumn = d.startColumn + Len(tok)
                 ELSE d.startColumn = 0 /\ d.endColumn = Len(text)

\* a token with two decimal points was searched for and bracketed
C9_Witness ==
  /\ mapped /\ ~result.threw
  /\ \E k \in 1..Len(result.diagnostics) :
       /\ TokenStarts(result.diagnostics[k].message) # {}
       /\ DotCount(WholeToken(result.diagnostics[k].message)) = 2
       /\ result.diagnostics[k].endColumn - result.diagnostics[k].startColumn
            = Len(WholeToken(result.diagnostics[k].message))
       /\ result.diagnostics[k].startColumn > 0

----------------------------------------------------------------------------
(* Properties of checkDocument, checked under Spec *)

\* the invocation threw and captured no text at all
Failed(r) == r.exit = "nonzero" /\ r.stdout = <<>> /\ r.stderr = <<>>

\* the invocation threw with some text captured
ThrewWithText(r) ==
  r.exit = "nonzero" /\ (r.stdout # <<>> \/ r.stderr # <<>>)

\* C2: while the collection is not disposed, the step in which a non-zero
\* exit with captured text is handled maps stdout followed by stderr
\* against the document as it is then and leaves the document's entry
\* equal to that result, without prompt or latch change and with the
\* invocation finished; a zero exit with the same text leaves the same
\* entry.
C2_Original ==
  [][\A c \in Checks :
       /\ (checks[c].pc = "exec" /\ checks'[c].pc # "exec"
             /\ ThrewWithText(checks'[c]) /\ deactivated = "no") =>
            /\ checks'[c].pc = "done"
            /\ checks'[c].mapper
            /\ ~checks'[c].threw
            /\ diagnostics'[checks[c].doc] =
                 parsePhpmndOutput(checks'[c].stdout \o checks'[c].stderr,
                                   docs[checks[c].doc]).diagnostics
            /\ prompts' = prompts
            /\ hasShownError' = hasShownError
       /\ (checks[c].pc = "exec" /\ checks'[c].exit = "zero"
             /\ deactivated = "no") =>
            diagnostics'[checks[c].doc] =
              parsePhpmndOutput(checks'[c].stdout \o checks'[c].stderr,
                                docs[checks[c].doc]).diagnostics
    ]_vars

\* C3: an invocation that throws with no stdout and no stderr captured
\* never calls the mapper, and when it finishes the document's entry is the
\* empty sequence, whatever it was before.
C3_FailureClears ==
  [][\A c \in Checks :
       /\ Failed(checks'[c]) => ~checks'[c].mapper
       /\ (checks[c].pc # "done" /\ checks'[c].pc = "done"
             /\ Failed(checks'[c])) =>
            diagnostics'[checks[c].doc] = <<>>
    ]_vars

\* a failed invocation finished after the other one had written a
\* non-empty entry for the same document, and the entry is empty
C3_Witness ==
  \E c, c2 \in Checks :
    /\ c # c2
    /\ deactivated = "no"
    /\ checks[c].pc = "done" /\ Failed(checks[c]) /\ ~checks[c].mapper
    /\ checks[c2].pc = "done" /\ checks[c2].wrote # <<>>
    /\ checks[c].doc = checks[c2].doc
    /\ lastFinished[checks[c].doc] = c
    /\ diagnostics[checks[c].doc] = <<>>

\* C4: the prompt is shown at most once in a process lifetime, and only by
\* an invocation failure: every failure handled before the output channel
\* is closed finds the prompt shown or shows it, and no other invocation
\* shows it; the latch hasShownError is never reset once set.
C4_Original ==
  /\ [](/\ prompts <= 1
        /\ hasShownError <=> (prompts = 1)
        /\ \A c \in Checks : checks[c].prompted => Failed(checks[c]))
  /\ [][\A c \in Checks :
          (checks[c].pc = "exec" /\ checks'[c].pc # "exec"
             /\ Failed(checks'[c]) /\ deactivated # "strict") =>
            prompts' = 1]_vars
  /\ [][hasShownError => hasShownError']_vars

\* the invocations of checkDocument on document d
ChecksOn(d) == {c \in Checks : checks[c].pc # "idle" /\ checks[c].doc = d}

\* C7: two invocations on the same document that are both awaiting the
\* analyzer are each free to end (neither is cancelled or blocked), and,
\* until deactivate() empties the collection, once all invocations on a
\* document have finished its entry is the result of the one that finished
\* last, whichever was started first.
C7_Original ==
  /\ \A c1, c2 \in Checks :
       (c1 # c2 /\ checks[c1].pc = "exec" /\ checks[c2].pc = "exec"
          /\ checks[c1].doc = checks[c2].doc) =>
         /\ ENABLED (\E o \in AnalyzerOutputs :
                       ExecResolve(c1, o.stdout, o.stderr))
         /\ ENABLED (\E o \in AnalyzerOutputs :
                       ExecResolve(c2, o.stdout, o.stderr))
  /\ \A d \in Docs :
       (Cardinality(ChecksOn(d)) >= 2
          /\ \A c \in ChecksOn(d) : checks[c].pc = "done"
          /\ deactivated = "no") =>
         /\ lastFinished[d] \in ChecksOn(d)
         /\ diagnostics[d] = checks[lastFinished[d]].wrote

\* has an invocation other than c already failed
FailedBefore(c) == \E c2 \in Checks \ {c} : Failed(checks[c2])

\* C10: unless the output channel is closed, the first invocation failure
\* of the process writes nothing in its own step and suspends at the
\* prompt; the empty entry is there after the step in which the prompt is
\* answered or dismissed, over whatever another invocation wrote
\* meanwhile, and while the prompt is open the entry changes only by
\* another invocation finishing or by deactivate().  Every later
\* invocation failure leaves the empty entry in its own step and never
\* waits.
C10_Original ==
  [][\A c \in Checks :
       /\ (checks[c].pc = "exec" /\ checks'[c].pc # "exec"
             /\ Failed(checks'[c]) /\ ~FailedBefore(c)
             /\ deactivated # "strict") =>
            /\ checks'[c].pc = "prompt"
            /\ diagnostics' = diagnostics
       /\ (checks[c].pc = "prompt" /\ checks'[c].pc # "prompt") =>
            /\ checks'[c].pc = "done"
            /\ diagnostics'[checks[c].doc] = <<>>
       /\ (checks[c].pc = "exec" /\ checks'[c].pc # "exec"
             /\ Failed(checks'[c]) /\ FailedBefore(c)) =>
            /\ checks'[c].pc = "done"
            /\ diagnostics'[checks[c].doc] = <<>>
       /\ (checks[c].pc = "prompt" /\ checks'[c].pc = "prompt") =>
            (diagnostics'[checks[c].doc] # diagnostics[checks[c].doc] =>
               \/ deactivated' # deactivated
               \/ \E c2 \in Checks \ {c} :
                    /\ checks[c2].pc # "done" /\ checks'[c2].pc = "done"
                    /\ checks[c2].doc = checks[c].doc)
    ]_vars

====
